---- MODULE Spec2Model ----
(***************************************************************************)
(* A model of django-easy-audit's change detection and audit dispatch:     *)
(*   easyaudit/utils.py              field selection, value normalisation, *)
(*                                   model_delta                           *)
(*   easyaudit/signals/crud_flows.py the four dispatch flows, the actor    *)
(*                                   lookup, and the m2m snapshot cache    *)
(*                                                                         *)
(* Python strings that the code builds by concatenation (cache keys,       *)
(* signal action names) are sequences of one-character strings, so that    *)
(* removeprefix and the f-string of _cache_key are computed, not assumed.  *)
(* Field values are records [t, s, local, off]: t is the Python type of    *)
(* the value, s the text of a str, local/off the wall-clock minutes and    *)
(* the UTC offset (minutes) of a datetime.                                 *)
(*                                                                         *)
(* Specifications:                                                         *)
(*   Spec      the flows and the m2m lifecycle of one audited instance     *)
(*   SpecDelta one call of model_delta and of get_audit_log_fields         *)
(*   SpecCall  one call of an entry point of crud_flows.py, from a drawn   *)
(*             starting state and drawn arguments                          *)
(*   SpecSeq   the save and delete flows of one entity over time           *)
(*   SpecTtl   pre-phase callbacks whose post-phase never fires            *)
(*   SpecKeys  two calls of _cache_key                                     *)
(***************************************************************************)
EXTENDS Integers, Sequences, FiniteSets, TLC

VARIABLES
    settings,      \* django.conf.settings: the options the code reads
    cls,           \* the model class handed to utils.py (delta runs)
    old_model,     \* old state of the instance: field name -> raw value
    new_model,     \* new state of the instance
    delta,         \* result of model_delta, or Unset before the call
    audit_fields,  \* result of get_audit_log_fields, or Unset
    sink,          \* the CRUDEvent rows written by audit_logger.crud
    cache,         \* django.core.cache: key -> [value, expires, owner]; owner
                   \* is history: the instance whose capture wrote the entry
    now,           \* wall clock, seconds
    members,       \* instance -> pks of its related rows (the m2m relation)
    op,            \* instance -> m2m operation in flight (host lifecycle)
    last,          \* how the most recent flow call ended
    args,          \* the arguments of the one call of a single-call run
    keys           \* result of the _cache_key calls, or Unset

vars == <<settings, cls, old_model, new_model, delta, audit_fields,
          sink, cache, now, members, op, last, args, keys>>

deltaVars == <<cls, old_model, new_model, delta, audit_fields>>
flowVars == <<sink, cache, now, members, op, last>>
callVars == <<args, keys>>

----------------------------------------------------------------------------
(* Python values *)

Val(t, s, local, off) == [t |-> t, s |-> s, local |-> local, off |-> off]

None == Val("none", "", 0, 0)
PyStr(s) == Val("str", s, 0, 0)
Naive(local) == Val("naive", "", local, 0)
Aware(local, off) == Val("aware", "", local, off)
\* reading the attribute raises ObjectDoesNotExist
DoesNotExist == Val("raises_dne", "", 0, 0)
NOT_PROVIDED == Val("not_provided", "", 0, 0)

Unset == Val("unset", "", 0, 0)

\* str(datetime): the wall-clock time, followed by the offset when aware
DatetimeText(v) == Val("str", IF v.t = "aware" THEN "datetime+tz" ELSE "datetime", v.local, v.off)

\* django.utils.encoding.smart_str on the values of this model: a str is
\* returned as is, anything else goes through str()
smart_str(v) ==
    IF v.t = "str" THEN v
    ELSE IF v.t = "none" THEN PyStr("None")
    ELSE IF v.t \in {"naive", "aware"} THEN DatetimeText(v)
    ELSE PyStr(v.t)

\* Python's == on the values get_field_value returns: two aware datetimes
\* are equal when they denote the same instant, an aware and a naive one
\* are never equal, everything else compares by value
PyEq(x, y) ==
    IF x.t = "aware" /\ y.t = "aware" THEN x.local - x.off = y.local - y.off
    ELSE x = y

\* variant: the offset is dropped without converting to UTC
make_naive_keep_local(v) == Naive(v.local)

\* timezone.make_naive(value, timezone=dt.timezone.utc)
make_naive_utc(v) == Naive(v.local - v.off)

is_naive(v) == v.t = "naive"

----------------------------------------------------------------------------
(* Model classes handed to utils.py *)

Field(name, kind, default) == [name |-> name, kind |-> kind, default |-> default]

\* _meta.get_fields() / _meta.fields of the audited class, declaration order
ModelFields ==
    << Field("a", "scalar", NOT_PROVIDED),
       Field("b", "scalar", PyStr("a")),
       Field("t", "temporal", NOT_PROVIDED) >>

FieldNames == {ModelFields[k].name : k \in DOMAIN ModelFields}

\* a class: its fields and its optional audit_log_fields /
\* audit_log_fields_exclude attributes
Class(hasInc, inc, hasExc, exc) ==
    [fields |-> ModelFields,
     has_audit_log_fields |-> hasInc, audit_log_fields |-> inc,
     has_audit_log_fields_exclude |-> hasExc, audit_log_fields_exclude |-> exc]

IncludeLists == {{"*"}, {"a"}, {"a", "t", "rel__x"}, {"*", "rel__x"}}
ExcludeLists == {{}, {"b"}, {"a", "zz"}}

Classes ==
    {Class(FALSE, {}, FALSE, {})}
    \cup {Class(TRUE, i, FALSE, {}) : i \in IncludeLists}
    \cup {Class(FALSE, {}, TRUE, e) : e \in ExcludeLists}
    \cup {Class(TRUE, i, TRUE, e) : i \in IncludeLists, e \in ExcludeLists}

NoClass == Class(FALSE, {}, FALSE, {})

ScalarValues == {None, PyStr("None"), PyStr(""), PyStr("a"), DoesNotExist}
SmallScalarValues == {None, PyStr("a")}
\* 10:00 UTC written with offsets 0 and +60, 10:00+01:00, and naive 10:00
TemporalValues == {None, Aware(600, 0), Aware(660, 60), Aware(600, 60), Naive(600)}

ModelStates ==
    {[n \in FieldNames |-> IF n = "a" THEN va ELSE IF n = "b" THEN vb ELSE vt] :
        va \in ScalarValues, vb \in SmallScalarValues, vt \in TemporalValues}

----------------------------------------------------------------------------
(* utils.py *)

\* variant: the exclude list is not subtracted
get_audit_log_fields_no_exclude(c) ==
    LET declared == IF c.has_audit_log_fields THEN c.audit_log_fields ELSE {"*"}
    IN  IF "*" \in declared
        THEN (declared \cup {c.fields[k].name : k \in DOMAIN c.fields}) \ {"*"}
        ELSE declared

get_audit_log_fields(c) ==
    LET declared == IF c.has_audit_log_fields THEN c.audit_log_fields ELSE {"*"}
        expanded == IF "*" \in declared
                    THEN (declared \cup {c.fields[k].name : k \in DOMAIN c.fields}) \ {"*"}
                    ELSE declared
        excluded == IF c.has_audit_log_fields_exclude
                    THEN c.audit_log_fields_exclude ELSE {}
    IN  expanded \ excluded

FieldDefault(field) == IF field.default # NOT_PROVIDED THEN field.default ELSE None

\* the values of this model hold no pint Quantity, so both import branches
\* of the non-temporal path end in smart_str of the attribute
get_field_value(obj, field, use_tz) ==
    LET raw == obj[field.name] IN
    IF field.kind = "temporal"
    THEN IF raw = DoesNotExist THEN FieldDefault(field)
         ELSE IF raw # None /\ use_tz /\ ~is_naive(raw) THEN make_naive_utc(raw)
         ELSE raw
    ELSE IF raw = DoesNotExist THEN FieldDefault(field)
         ELSE smart_str(smart_str(raw))

\* the fields model_delta walks: get_fields() minus audit_log_fields_exclude
DeltaFields(c) ==
    IF c.has_audit_log_fields_exclude
    THEN SelectSeq(c.fields, LAMBDA f : f.name \notin c.audit_log_fields_exclude)
    ELSE c.fields

RECURSIVE DeltaEntries(_, _, _, _)
DeltaEntries(fields, old, new, use_tz) ==
    IF fields = <<>> THEN <<>>
    ELSE LET field == Head(fields)
             old_value == get_field_value(old, field, use_tz)
             new_value == get_field_value(new, field, use_tz)
             rest == DeltaEntries(Tail(fields), old, new, use_tz)
         IN  IF ~PyEq(old_value, new_value)
             THEN <<[key |-> field.name,
                     val |-> <<smart_str(old_value), smart_str(new_value)>>]>> \o rest
             ELSE rest

\* a dict is the sequence of its items in insertion order
PyDict(items) == [t |-> "dict", items |-> items]

model_delta(old, new, c, use_tz) ==
    LET d == DeltaEntries(DeltaFields(c), old, new, use_tz)
    IN  IF Len(d) = 0 THEN None ELSE PyDict(d)

should_propagate_exceptions(s) == s.PROPAGATE_EXCEPTIONS

----------------------------------------------------------------------------
(* The delta runs: one class and one (old, new) pair, then the two calls *)

DefaultSettings(use_tz) ==
    [USE_TZ |-> use_tz, PROPAGATE_EXCEPTIONS |-> FALSE,
     CHECK_IF_REQUEST_USER_EXISTS |-> TRUE]

ModelDelta ==
    /\ delta = Unset
    /\ delta' = model_delta(old_model, new_model, cls, settings.USE_TZ)
    /\ UNCHANGED <<settings, cls, old_model, new_model, audit_fields>>
    /\ UNCHANGED flowVars
    /\ UNCHANGED callVars

GetAuditLogFields ==
    /\ audit_fields = Unset
    /\ audit_fields' = [t |-> "set", elems |-> get_audit_log_fields(cls)]
    /\ UNCHANGED <<settings, cls, old_model, new_model, delta>>
    /\ UNCHANGED flowVars
    /\ UNCHANGED callVars

----------------------------------------------------------------------------
(* Text built by the code: sequences of one-character strings *)

Digit(d) == <<"0", "1", "2", "3", "4", "5", "6", "7", "8", "9">>[d + 1]

\* str(n) of a non-negative int
RECURSIVE IntToStr(_)
IntToStr(n) == IF n < 10 THEN <<Digit(n)>> ELSE IntToStr(n \div 10) \o <<Digit(n % 10)>>

StartsWith(s, prefix) ==
    Len(s) >= Len(prefix) /\ SubSeq(s, 1, Len(prefix)) = prefix

\* str.removeprefix
removeprefix(s, prefix) ==
    IF StartsWith(s, prefix) THEN SubSeq(s, Len(prefix) + 1, Len(s)) ELSE s

\* `sub in s` for two str
Contains(s, sub) ==
    \E k \in 1..(Len(s) + 1) : StartsWith(SubSeq(s, k, Len(s)), sub)

\* "".join(s.split(sep)[1:]): what follows the first sep, later seps dropped
RECURSIVE DropAll(_, _)
DropAll(s, sep) ==
    IF s = <<>> THEN <<>>
    ELSE IF StartsWith(s, sep) THEN DropAll(SubSeq(s, Len(sep) + 1, Len(s)), sep)
    ELSE <<Head(s)>> \o DropAll(Tail(s), sep)

RECURSIVE AfterFirst(_, _)
AfterFirst(s, sep) ==
    IF s = <<>> THEN <<>>
    ELSE IF StartsWith(s, sep) THEN DropAll(SubSeq(s, Len(sep) + 1, Len(s)), sep)
    ELSE AfterFirst(Tail(s), sep)

PRE == <<"p", "r", "e", "_">>
POST == <<"p", "o", "s", "t", "_">>
ADD == <<"a", "d", "d">>
REMOVE == <<"r", "e", "m", "o", "v", "e">>
CLEAR == <<"c", "l", "e", "a", "r">>
US == <<"_">>

Operations == {ADD, REMOVE, CLEAR}
PreActions == {PRE \o x : x \in Operations}
PostActions == {POST \o x : x \in Operations}

----------------------------------------------------------------------------
(* The audited instances and their many-to-many relation *)

TeamName == <<"T", "e", "a", "m">>
\* the relation is Team.m; its tracked member attributes
RelName == <<"m">>
IdField == <<"m", "+", "_", "_", "i", "d">>
NameField == <<"m", "+", "_", "_", "n", "a", "m", "e">>
TitleField == <<"t", "i", "t", "l", "e">>

Instance(app, name, pk) == [app |-> app, name |-> name, pk |-> pk]

\* the audited rows the host reports on
Instances == {Instance("teams", TeamName, 1)}

\* instance.audit_log_fields
InstanceAuditLogFields(instance) == {TitleField, IdField, NameField}

\* the model on the other side of the relation: _meta.related_objects as
\* (class of x.related_model, x.remote_field.name)
MemberModel ==
    <<[related_class |-> <<"teams", TeamName>>, remote_field_name |-> RelName],
      [related_class |-> <<"sports", TeamName>>, remote_field_name |-> RelName]>>
UnrelatedModel == <<[related_class |-> <<"blog", TitleField>>, remote_field_name |-> TitleField]>>
SignalModels == {MemberModel, UnrelatedModel}

MaxMember == 3
MemberPks == 1..MaxMember

\* values_list(attr, flat=True) of one member row
AttrId == <<"i", "d">>
MemberAttr(pk, attr) == IF attr = AttrId THEN pk ELSE 100 + pk

RECURSIVE SortedSeq(_)
SortedSeq(S) ==
    IF S = {} THEN <<>>
    ELSE LET m == CHOOSE x \in S : \A y \in S : x <= y
         IN  <<m>> \o SortedSeq(S \ {m})

PyList(items) == [t |-> "list", items |-> items]

RECURSIVE get_m2m_field_name(_, _)
get_m2m_field_name(model, instance) ==
    IF model = <<>> THEN None
    ELSE IF Head(model).related_class = <<instance.app, instance.name>>
         THEN [t |-> "str", chars |-> Head(model).remote_field_name]
         ELSE get_m2m_field_name(Tail(model), instance)

\* getattr(instance, m2m_field).all().order_by('pk')
saved_values(rows) == SortedSeq(rows)

ValuesList(rows, attr) ==
    LET q == saved_values(rows)
    IN  PyList([k \in 1..Len(q) |-> MemberAttr(q[k], attr)])

\* the dict get_m2m_field_values returns, as a function on its keys;
\* m2m_field is the text returned by get_m2m_field_name
get_m2m_field_values(m2m_field, instance, rows) ==
    LET fields == {f \in InstanceAuditLogFields(instance) :
                       Contains(f, m2m_field \o <<"+">>)}
    IN  [f \in fields |-> ValuesList(rows, AfterFirst(f, <<"+", "_", "_">>))]

\* variant: the action is used as the signal names it
_cache_key_raw_action(instance, field_name, action) ==
    instance.name \o US \o IntToStr(instance.pk) \o US \o field_name \o US \o action

\* variant: only the "pre_" prefix is stripped
_cache_key_pre_only(instance, field_name, action) ==
    instance.name \o US \o IntToStr(instance.pk) \o US \o field_name \o US
        \o removeprefix(action, PRE)

\* f'{instance.__class__.__name__}_{instance.pk}_{field_name}_{action}'
_cache_key(instance, field_name, action) ==
    LET a == removeprefix(removeprefix(action, PRE), POST)
    IN  instance.name \o US \o IntToStr(instance.pk) \o US \o field_name \o US \o a

----------------------------------------------------------------------------
(* django.core.cache, as crud_flows.py uses it *)

SnapshotTimeout == 30

\* cache.set(key, value, timeout); owner and at are history only: who wrote
\* the entry, and when
cache_set(c, key, value, timeout, t, owner) ==
    [k \in DOMAIN c \cup {key} |->
        IF k = key
        THEN [value |-> value, expires |-> t + timeout, owner |-> owner, at |-> t]
        ELSE c[k]]

EmptyCache == [k \in {} |-> None]

\* cache.get(key): None for a key that is missing or past its expiry
cache_get(c, key, t) ==
    IF key \in DOMAIN c /\ t < c[key].expires THEN c[key].value ELSE None

\* cache_m2m_field: one cache.set per tracked field; the keys of distinct
\* fields are distinct, so the order of the loop does not matter
RECURSIVE SetAll(_, _, _, _, _, _)
SetAll(c, todo, field_values, instance, action, t) ==
    IF todo = {} THEN c
    ELSE LET f == CHOOSE x \in todo : TRUE
         IN  SetAll(cache_set(c, _cache_key(instance, f, action), field_values[f],
                              SnapshotTimeout, t, instance),
                    todo \ {f}, field_values, instance, action, t)

\* variant: the entries are written without the timeout argument, and get
\* the default timeout of the cache backend, 300 s
cache_m2m_field_no_timeout(c, m2m_field, instance, rows, action, t) ==
    LET field_values == get_m2m_field_values(m2m_field, instance, rows)
        fieldOf(k) == CHOOSE f \in DOMAIN field_values : _cache_key(instance, f, action) = k
        written == {_cache_key(instance, f, action) : f \in DOMAIN field_values}
    IN  [k \in DOMAIN c \cup written |->
            IF k \in written
            THEN [value |-> field_values[fieldOf(k)], expires |-> t + 300,
                  owner |-> instance, at |-> t]
            ELSE c[k]]

cache_m2m_field(c, m2m_field, instance, rows, action, t) ==
    LET field_values == get_m2m_field_values(m2m_field, instance, rows)
    IN  SetAll(c, DOMAIN field_values, field_values, instance, action, t)

get_cached_m2m_field(c, instance, fields, action, t) ==
    [f \in fields |-> cache_get(c, _cache_key(instance, f, action), t)]

----------------------------------------------------------------------------
(* Event assembly *)

Text(chars) == [t |-> "str", chars |-> chars]
PyInt(n) == [t |-> "int", n |-> n]

\* the ambient actor: what get_current_user() gives (or that it raises) and
\* whether the user row still exists
Actor(user, raises, exists) == [user |-> user, raises |-> raises, exists |-> exists]
AnonymousUser == [t |-> "anonymous", pk |-> 0]
User(pk) == [t |-> "user", pk |-> pk]
NoUser == [t |-> "none", pk |-> 0]
Actors ==
    {Actor(NoUser, FALSE, FALSE), Actor(AnonymousUser, FALSE, FALSE),
     Actor(NoUser, TRUE, FALSE),
     Actor(User(7), FALSE, TRUE), Actor(User(7), FALSE, FALSE)}

\* the actor of the requests that reach the dispatch flows
RequestActors == {Actor(User(7), FALSE, TRUE)}

NoActor == <<Text(<<>>), Text(<<>>)>>

\* variant: the user is never looked up again
get_current_user_details_no_recheck(actor, s) ==
    IF actor.raises THEN NoActor
    ELSE IF actor.user # NoUser /\ actor.user # AnonymousUser
         THEN <<PyInt(actor.user.pk), Text(IntToStr(actor.user.pk))>>
         ELSE NoActor

get_current_user_details(actor, s) ==
    IF actor.raises THEN NoActor
    ELSE IF actor.user # NoUser /\ actor.user # AnonymousUser
         THEN IF s.CHECK_IF_REQUEST_USER_EXISTS /\ ~actor.exists
              THEN NoActor
              ELSE <<PyInt(actor.user.pk), Text(IntToStr(actor.user.pk))>>
         ELSE NoActor

NotPassed == Val("not_passed", "", 0, 0)

\* the dict log_event hands to audit_logger.crud; its "datetime" entry
\* (timezone.now()) is left out, the order of the sink is the order of writes
log_event(event_type, instance, object_id, object_json_repr, changed_fields, actor, s) ==
    LET user == get_current_user_details(actor, s)
    IN  [content_type_id |-> <<instance.app, instance.name>>,
         event_type |-> event_type,
         object_id |-> object_id,
         object_json_repr |-> IF object_json_repr \in {None, PyStr("")}
                              THEN PyStr("") ELSE object_json_repr,
         object_repr |-> <<instance.name, instance.pk>>,
         user_id |-> user[1],
         user_pk_as_string |-> user[2],
         changed_fields |-> changed_fields]

\* variant: the exception is always swallowed
handle_flow_exception_swallow(s) == "returned"

handle_flow_exception(s) ==
    IF should_propagate_exceptions(s) THEN "raised" ELSE "returned"

----------------------------------------------------------------------------
(* The dispatch flows *)

MaxEvents == 1
MaxOps == 1
MaxTime == 30
TickStep == 15

CREATE == "CREATE"
UPDATE == "UPDATE"
DELETE == "DELETE"
M2MEventTypes == {"M2M_CHANGE", "M2M_CHANGE_REV"}

\* where an injected failure strikes: nowhere, while the event is built
\* (ContentType lookup, str(instance)), or in audit_logger.crud
Fails == {"none", "build", "write"}

JsonReprs == {PyStr("{json}")}

\* the deltas the update handler can hand to pre_save_crud_flow
FlowStates ==
    {[n \in FieldNames |-> IF n = "a" THEN va ELSE None] : va \in {PyStr("Alice"), PyStr("Alicia")}}
FlowDeltas == {model_delta(o, n, NoClass, TRUE) : o \in FlowStates, n \in FlowStates}

\* the m2m operation an instance is in: stage, kind (add/remove/clear), the
\* members at its pre-phase, and n, the operations the instance has started
Idle(n) == [stage |-> "idle", kind |-> <<>>, pre |-> {}, n |-> n]
\* how the most recent flow call ended: whether an exception occurred
\* inside its try block, and what its caller saw
NoCall == [failed |-> FALSE, outcome |-> "returned"]

Call(failed, outcome) == [failed |-> failed, outcome |-> outcome]

\* what a write that fails half way leaves behind inside the transaction
Partial(event) == [partial |-> event]

\* audit_logger.crud(crud_info): the backend inserts the row; a failing write
\* raises after part of the row is in place
audit_logger_crud(rows, event, fail) ==
    Append(rows, IF fail = "write" THEN Partial(event) ELSE event)

\* variant: the block is left without a rollback
transaction_atomic_no_rollback(before, after, raised) == after

\* with transaction.atomic(using=DATABASE_ALIAS): the rows written by the
\* block are kept when it exits normally and rolled back when it raises
transaction_atomic(before, after, raised) == IF raised THEN before ELSE after

\* variant: the new row is put in front of the rows already written
Dispatch_front(fail, event) ==
    /\ sink' = IF fail # "none" THEN sink ELSE <<event>> \o sink
    /\ last' = Call(fail # "none",
                    IF fail # "none" THEN handle_flow_exception(settings) ELSE "returned")

\* the try/except of a flow around log_event. fail tells where an exception
\* strikes: "lookup" before log_event, "build" while the dict is built (the
\* backend is not called), "write" inside audit_logger.crud.
\* handle_flow_exception decides whether the caller sees the exception
Dispatch(fail, event) ==
    LET raised == fail # "none"
        written == IF fail \in {"none", "write"}
                   THEN audit_logger_crud(sink, event, fail) ELSE sink
    IN  /\ sink' = transaction_atomic(sink, written, raised)
        /\ last' = Call(raised, IF raised THEN handle_flow_exception(settings)
                                ELSE "returned")

pre_save_crud_flow(instance, object_json_repr, changed_fields, actor, fail) ==
    /\ Dispatch(fail,
                log_event(UPDATE, instance, instance.pk, object_json_repr,
                          changed_fields, actor, settings))
    /\ UNCHANGED <<cache, now, members, op, settings>>
    /\ UNCHANGED deltaVars
    /\ UNCHANGED callVars

post_save_crud_flow(instance, object_json_repr, actor, fail) ==
    /\ Dispatch(fail,
                log_event(CREATE, instance, instance.pk, object_json_repr,
                          NotPassed, actor, settings))
    /\ UNCHANGED <<cache, now, members, op, settings>>
    /\ UNCHANGED deltaVars
    /\ UNCHANGED callVars

\* variant: the event is recorded under the instance's primary key
post_delete_crud_flow_instance_pk(instance, object_id, object_json_repr, actor, fail) ==
    /\ Dispatch(fail,
                log_event(DELETE, instance, instance.pk, object_json_repr,
                          NotPassed, actor, settings))
    /\ UNCHANGED <<cache, now, members, op, settings>>
    /\ UNCHANGED deltaVars
    /\ UNCHANGED callVars

post_delete_crud_flow(instance, object_id, object_json_repr, actor, fail) ==
    /\ Dispatch(fail,
                log_event(DELETE, instance, object_id, object_json_repr,
                          NotPassed, actor, settings))
    /\ UNCHANGED <<cache, now, members, op, settings>>
    /\ UNCHANGED deltaVars
    /\ UNCHANGED callVars

\* the host's pre_add / pre_remove / pre_clear callback
CacheM2MField(instance, action) ==
    /\ op[instance].stage = "idle"
    /\ op[instance].n < MaxOps
    /\ cache' = cache_m2m_field(cache, get_m2m_field_name(MemberModel, instance).chars,
                                instance, members[instance], action, now)
    /\ op' = [op EXCEPT ![instance] =
                 [stage |-> "captured", kind |-> removeprefix(action, PRE),
                  pre |-> members[instance], n |-> @.n + 1]]
    /\ UNCHANGED <<sink, now, members, last, settings>>
    /\ UNCHANGED deltaVars
    /\ UNCHANGED callVars

\* the host changes the relation between the two callbacks
Mutate(instance, pk) ==
    /\ op[instance].stage = "captured"
    /\ members' = [members EXCEPT ![instance] =
                      IF op[instance].kind = ADD THEN @ \cup {pk}
                      ELSE IF op[instance].kind = REMOVE THEN @ \ {pk}
                      ELSE {}]
    /\ op' = [op EXCEPT ![instance].stage = "mutated"]
    /\ UNCHANGED <<sink, cache, now, last, settings>>
    /\ UNCHANGED deltaVars
    /\ UNCHANGED callVars

\* json.dumps({m2m_field_name: [old_values, new_values]})
M2MJson(m2m_field, old_values, new_values) ==
    [t |-> "json", name |-> m2m_field, old |-> old_values, new |-> new_values]

\* variant: the two sides of the pair are swapped
M2MChangedFields_swapped(action, model, instance) ==
    IF action = POST \o CLEAR THEN PyList(<<>>)
    ELSE LET m2m_field == get_m2m_field_name(model, instance).chars
             new_values == get_m2m_field_values(m2m_field, instance, members[instance])
             old_values == get_cached_m2m_field(cache, instance, DOMAIN new_values,
                                                action, now)
         IN  M2MJson(m2m_field, new_values, old_values)

\* variant: post_clear takes the path of the other actions
M2MChangedFields_no_bypass(action, model, instance) ==
    IF get_m2m_field_name(model, instance) = None THEN PyList(<<>>)
    ELSE LET m2m_field == get_m2m_field_name(model, instance).chars
             new_values == get_m2m_field_values(m2m_field, instance, members[instance])
             old_values == get_cached_m2m_field(cache, instance, DOMAIN new_values,
                                                action, now)
         IN  M2MJson(m2m_field, old_values, new_values)

M2MChangedFields(action, model, instance) ==
    IF action = POST \o CLEAR THEN PyList(<<>>)
    ELSE LET m2m_field == get_m2m_field_name(model, instance).chars
             new_values == get_m2m_field_values(m2m_field, instance, members[instance])
             old_values == get_cached_m2m_field(cache, instance, DOMAIN new_values,
                                                action, now)
         IN  M2MJson(m2m_field, old_values, new_values)

\* getattr(instance, None) raises when the model has no relation to the
\* instance's class
M2MRaises(action, model, instance) ==
    action # POST \o CLEAR /\ get_m2m_field_name(model, instance) = None

m2m_changed_crud_flow(action, model, instance, event_type, object_json_repr, actor, fail) ==
    /\ \/ op[instance].stage = "idle"
       \/ op[instance].stage = "mutated" /\ action = POST \o op[instance].kind
    /\ LET where == IF M2MRaises(action, model, instance) THEN "lookup" ELSE fail
       IN  Dispatch(where,
                    IF where = "lookup" THEN <<>>
                    ELSE log_event(event_type, instance, instance.pk, object_json_repr,
                                   M2MChangedFields(action, model, instance),
                                   actor, settings))
    /\ op' = [op EXCEPT ![instance] = Idle(@.n)]
    /\ UNCHANGED <<cache, now, members, settings>>
    /\ UNCHANGED deltaVars
    /\ UNCHANGED callVars

Tick ==
    /\ now + TickStep <= MaxTime
    /\ now' = now + TickStep
    /\ UNCHANGED <<sink, cache, members, op, last, settings>>
    /\ UNCHANGED deltaVars
    /\ UNCHANGED callVars

\* the cache backend loses its entries (eviction, restart between phases)
Evict ==
    /\ DOMAIN cache # {}
    /\ cache' = EmptyCache
    /\ UNCHANGED <<sink, now, members, op, last, settings>>
    /\ UNCHANGED deltaVars
    /\ UNCHANGED callVars

----------------------------------------------------------------------------
(* Specifications *)

\* the arguments of the call of a single-call run: the entry point, then
\* its parameters (those the entry point does not take hold a filler)
Args(flow, action, model, event_type, object_id, changed_fields, actor, fail) ==
    [flow |-> flow, action |-> action, model |-> model, event_type |-> event_type,
     object_id |-> object_id, changed_fields |-> changed_fields, actor |-> actor,
     fail |-> fail]

NoArgs == Args("none", <<>>, <<>>, "", 0, None, Actor(NoUser, FALSE, FALSE), "none")

FlowsIdle ==
    /\ sink = <<>>
    /\ cache = EmptyCache
    /\ now = 0
    /\ members = [i \in Instances |-> {1, 2}]
    /\ op = [i \in Instances |-> Idle(0)]
    /\ last = NoCall

Init ==
    /\ settings \in {[USE_TZ |-> TRUE, PROPAGATE_EXCEPTIONS |-> p,
                      CHECK_IF_REQUEST_USER_EXISTS |-> TRUE] : p \in BOOLEAN}
    /\ cls = NoClass
    /\ old_model = [n \in FieldNames |-> None]
    /\ new_model = old_model
    /\ delta = Unset
    /\ audit_fields = Unset
    /\ FlowsIdle
    /\ args = NoArgs
    /\ keys = Unset

Next ==
    \/ \E i \in Instances, j \in JsonReprs, d \in FlowDeltas, a \in RequestActors, f \in Fails :
          Len(sink) < MaxEvents /\ pre_save_crud_flow(i, j, d, a, f)
    \/ \E i \in Instances, j \in JsonReprs, a \in RequestActors, f \in Fails :
          Len(sink) < MaxEvents /\ post_save_crud_flow(i, j, a, f)
    \/ \E i \in Instances, o \in 1..2, j \in JsonReprs, a \in RequestActors, f \in Fails :
          Len(sink) < MaxEvents /\ post_delete_crud_flow(i, o, j, a, f)
    \/ \E i \in Instances, x \in PreActions : CacheM2MField(i, x)
    \/ \E i \in Instances, pk \in MemberPks : Mutate(i, pk)
    \/ \E i \in Instances, x \in PostActions, m \in SignalModels, e \in M2MEventTypes,
          j \in JsonReprs, a \in RequestActors, f \in Fails :
          Len(sink) < MaxEvents /\ m2m_changed_crud_flow(x, m, i, e, j, a, f)
    \/ Tick
    \/ Evict

Spec == Init /\ [][Next]_vars

InitDelta ==
    /\ settings \in {DefaultSettings(tz) : tz \in BOOLEAN}
    /\ cls \in Classes
    /\ old_model \in ModelStates
    /\ new_model \in ModelStates
    /\ delta = Unset
    /\ audit_fields = Unset
    /\ FlowsIdle
    /\ args = NoArgs
    /\ keys = Unset

NextDelta == ModelDelta \/ GetAuditLogFields

SpecDelta == InitDelta /\ [][NextDelta]_vars

----------------------------------------------------------------------------
(* The single-call runs: a starting state and the arguments of one call of *)
(* an entry point of crud_flows.py are drawn, then the call is made        *)

\* [:50] of utils._get_m2m_values
M2MCap == 50

\* a relation with more members than M2MCap
BigRelation == 1..(M2MCap + 1)

TheJson == PyStr("{json}")

CallArgs ==
    {Args("pre_save", <<>>, <<>>, UPDATE, 0, d, a, f) :
        d \in FlowDeltas, a \in Actors, f \in Fails}
    \cup {Args("post_save", <<>>, <<>>, CREATE, 0, NotPassed, a, f) :
        a \in Actors, f \in Fails}
    \cup {Args("post_delete", <<>>, <<>>, DELETE, o, NotPassed, a, f) :
        o \in 1..2, a \in Actors, f \in Fails}
    \cup {Args("m2m_changed", x, m, e, 0, NotPassed, a, f) :
        x \in PostActions, m \in SignalModels, e \in M2MEventTypes,
        a \in Actors, f \in Fails}
    \cup {Args("cache_m2m_field", x, MemberModel, "", 0, NotPassed,
                Actor(NoUser, FALSE, FALSE), "none") : x \in PreActions}

\* the caches a call can find: empty, or holding the snapshot of {1, 2}
\* that a pre-phase callback took at time 0
StartCaches ==
    {EmptyCache}
    \cup {cache_m2m_field(EmptyCache, RelName, i, {1, 2}, PRE \o x, 0) :
            i \in Instances, x \in Operations}

InitCall ==
    /\ settings \in {[USE_TZ |-> TRUE, PROPAGATE_EXCEPTIONS |-> p,
                      CHECK_IF_REQUEST_USER_EXISTS |-> c] : p, c \in BOOLEAN}
    /\ cls = NoClass
    /\ old_model = [n \in FieldNames |-> None]
    /\ new_model = old_model
    /\ delta = Unset
    /\ audit_fields = Unset
    /\ sink = <<>>
    /\ cache \in StartCaches
    /\ now = 0
    /\ members \in {[i \in Instances |-> r] : r \in {{}, {1, 2}, BigRelation}}
    /\ op = [i \in Instances |-> Idle(0)]
    /\ last = NoCall
    /\ args \in CallArgs
    /\ keys = Unset

\* the call has not been made
NotCalled ==
    /\ sink = <<>>
    /\ ~last.failed
    /\ \A i \in Instances : op[i] = Idle(0)

CallPreSave ==
    /\ NotCalled /\ args.flow = "pre_save"
    /\ \E i \in Instances :
          pre_save_crud_flow(i, TheJson, args.changed_fields, args.actor, args.fail)

CallPostSave ==
    /\ NotCalled /\ args.flow = "post_save"
    /\ \E i \in Instances : post_save_crud_flow(i, TheJson, args.actor, args.fail)

CallPostDelete ==
    /\ NotCalled /\ args.flow = "post_delete"
    /\ \E i \in Instances :
          post_delete_crud_flow(i, args.object_id, TheJson, args.actor, args.fail)

CallM2MChanged ==
    /\ NotCalled /\ args.flow = "m2m_changed"
    /\ \E i \in Instances :
          m2m_changed_crud_flow(args.action, args.model, i, args.event_type,
                                TheJson, args.actor, args.fail)

CallCacheM2MField ==
    /\ NotCalled /\ args.flow = "cache_m2m_field"
    /\ \E i \in Instances : CacheM2MField(i, args.action)

NextCall ==
    \/ CallPreSave
    \/ CallPostSave
    \/ CallPostDelete
    \/ CallM2MChanged
    \/ CallCacheM2MField

SpecCall == InitCall /\ [][NextCall]_vars

----------------------------------------------------------------------------
(* Properties of the dispatch flows (checked under Spec) *)

\* C1: in each of the four flows, an exception raised while the event is
\* built or written is swallowed when the propagation flag is off (the flow
\* returns normally) and re-raised to the caller when the flag is on.
C1_FailureIsolation ==
    /\ last.failed =>
          last.outcome = (IF settings.PROPAGATE_EXCEPTIONS THEN "raised" ELSE "returned")
    /\ ~last.failed => last.outcome = "returned"

C1_Witness ==
    /\ last.failed
    /\ settings.PROPAGATE_EXCEPTIONS
    /\ last.outcome = "raised"
    /\ sink = <<>>

\* C2: when the delta of an update is null, pre_save_crud_flow appends no
\* UPDATE event to the sink.
C2_NoEventForNoOpSave ==
    \A k \in 1..Len(sink) :
        sink[k].event_type = UPDATE => sink[k].changed_fields # None

TrackedFields(i) == DOMAIN get_m2m_field_values(RelName, i, members[i])

\* C8: a capture at the pre-phase followed immediately by a read at the
\* paired post-phase returns, for every tracked field, the captured list.
C8_SnapshotRoundTrip ==
    [][\A i \in Instances :
          (op[i].stage = "idle" /\ op'[i].stage = "captured") =>
              LET captured == get_m2m_field_values(RelName, i, members[i])
              IN  /\ DOMAIN captured = {IdField, NameField}
                  /\ captured[IdField] =
                        PyList([k \in 1..Cardinality(members[i]) |->
                                   SortedSeq(members[i])[k]])
                  /\ get_cached_m2m_field(cache', i, DOMAIN captured,
                                          POST \o op'[i].kind, now') = captured]_vars

C8_Witness ==
    \E i \in Instances :
        /\ op[i].stage = "captured"
        /\ op[i].kind = ADD
        /\ op[i].pre = {1, 2}
        /\ get_cached_m2m_field(cache, i, {IdField}, POST \o ADD, now)[IdField]
              = PyList(<<1, 2>>)

NoLiveEntry == \A k \in DOMAIN cache : ~(now < cache[k].expires)

\* C9: a read of a snapshot whose key is unknown, expired or evicted yields
\* an empty list, and the event is emitted with an empty list as the old
\* side of every tracked field.
C9_MissingSnapshotIsEmptyList ==
    [][\A i \in Instances :
          (/\ NoLiveEntry
           /\ op'[i] = Idle(op[i].n)
           /\ Len(sink') = Len(sink) + 1
           /\ sink'[Len(sink')].changed_fields.t = "json")
          => \A f \in TrackedFields(i) :
                sink'[Len(sink')].changed_fields.old[f] = PyList(<<>>)]_vars

SnapshotHeld(i) ==
    \A f \in TrackedFields(i) :
        LET key == _cache_key(i, f, PRE \o op[i].kind)
        IN  /\ key \in DOMAIN cache
            /\ now < cache[key].expires
            /\ cache[key].owner = i

\* C10: the post-phase dispatch of an add or remove whose pre-phase snapshot
\* is still held emits one event whose relationship delta has, for every
\* tracked field, old = the members at the pre-phase and new = the members
\* at the post-phase; for members {1,2} plus member 3: old [1,2], new [1,2,3].
C10_PrePostDelta ==
    [][\A i \in Instances :
          (/\ op[i].stage = "mutated"
           /\ op[i].kind # CLEAR
           /\ op'[i].stage = "idle"
           /\ ~last'.failed
           /\ SnapshotHeld(i))
          => /\ Len(sink') = Len(sink) + 1
             /\ LET e == sink'[Len(sink')]
                IN  /\ e.changed_fields =
                          M2MJson(RelName,
                                  get_m2m_field_values(RelName, i, op[i].pre),
                                  get_m2m_field_values(RelName, i, members[i]))
                    /\ (op[i].pre = {1, 2} /\ members[i] = {1, 2, 3}) =>
                          /\ e.changed_fields.old[IdField] = PyList(<<1, 2>>)
                          /\ e.changed_fields.new[IdField] = PyList(<<1, 2, 3>>)]_vars

C10_Witness ==
    /\ Len(sink) = 1
    /\ sink[1].changed_fields.t = "json"
    /\ sink[1].changed_fields.old[IdField] = PyList(<<1, 2>>)
    /\ sink[1].changed_fields.new[IdField] = PyList(<<1, 2, 3>>)

----------------------------------------------------------------------------
(* Properties of utils.py (checked under SpecDelta) *)

Computed == delta # Unset

\* the fields the Field Selector selects among the fields of the class
Selected(c) == get_audit_log_fields(c) \cap FieldNames

DeltaKeys == IF delta.t = "dict"
             THEN {delta.items[k].key : k \in 1..Len(delta.items)} ELSE {}

\* old and new differ on field n, by Python's comparison of the raw values
Differ(n) == ~PyEq(old_model[n], new_model[n])

FieldNamed(n) == CHOOSE f \in {ModelFields[k] : k \in DOMAIN ModelFields} : f.name = n

Normalized(obj, n) == smart_str(get_field_value(obj, FieldNamed(n), settings.USE_TZ))

\* C3: when old and new are identical on every selected field, model_delta
\* returns null, whatever the non-selected fields hold.
C3_IdenticalSelectedGivesNull ==
    (Computed /\ \A n \in Selected(cls) : old_model[n] = new_model[n])
        => delta = None

\* C4: when old and new differ on exactly one selected field F, model_delta
\* returns a mapping whose only key is F, mapped to the pair of the
\* normalized old and new values (stated for the non-temporal fields F).
C4_SingleFieldDelta ==
    \A F \in Selected(cls) \ {"t"} :
        (Computed /\ Differ(F) /\ \A n \in Selected(cls) \ {F} : ~Differ(n))
            => delta = PyDict(<<[key |-> F,
                                 val |-> <<Normalized(old_model, F),
                                           Normalized(new_model, F)>>]>>)

\* C5: the normalized form of null differs from that of the string "None",
\* so a save that changes a selected non-temporal field between null and
\* "None" produces a delta entry for that field.
C5_NullDistinctFromNoneString ==
    (/\ Computed
     /\ "a" \in Selected(cls)
     /\ {old_model["a"], new_model["a"]} = {None, PyStr("None")})
        => "a" \in DeltaKeys

\* C6: get_audit_log_fields returns the include list (with "*" or a missing
\* list expanded to all direct fields) minus the exclude list: no excluded
\* field, no "*", and an overlap of the two lists is not an error.
C6_FieldSelection ==
    audit_fields # Unset =>
        LET inc == IF cls.has_audit_log_fields THEN cls.audit_log_fields ELSE {"*"}
            exc == IF cls.has_audit_log_fields_exclude
                   THEN cls.audit_log_fields_exclude ELSE {}
            all == IF "*" \in inc THEN {"a", "b", "t"} ELSE {}
        IN  /\ audit_fields.t = "set"
            /\ audit_fields.elems = ((inc \ {"*"}) \cup all) \ exc
            /\ audit_fields.elems \cap exc = {}
            /\ "*" \notin audit_fields.elems

C6_Witness ==
    /\ audit_fields # Unset
    /\ cls.has_audit_log_fields /\ cls.audit_log_fields = {"*", "rel__x"}
    /\ cls.has_audit_log_fields_exclude /\ cls.audit_log_fields_exclude = {"a", "zz"}
    /\ audit_fields.elems = {"b", "t", "rel__x"}

SameInstantOtherOffset(x, y) ==
    /\ x.t = "aware" /\ y.t = "aware"
    /\ x.off # y.off
    /\ x.local - x.off = y.local - y.off

\* C7: with USE_TZ on, two values of a temporal field that denote the same
\* instant with different UTC offsets normalize to equal values, and
\* model_delta records no change for the field.
C7_SameInstantNoChange ==
    (/\ Computed
     /\ settings.USE_TZ
     /\ SameInstantOtherOffset(old_model["t"], new_model["t"]))
        => /\ Normalized(old_model, "t") = Normalized(new_model, "t")
           /\ "t" \notin DeltaKeys

C7_Witness ==
    /\ Computed
    /\ settings.USE_TZ
    /\ old_model["t"] = Aware(600, 0)
    /\ new_model["t"] = Aware(660, 60)
    /\ ~cls.has_audit_log_fields_exclude
    /\ "t" \notin DeltaKeys

----------------------------------------------------------------------------
(* The sequential runs: one entity is mutated at successive times, and the *)
(* handler of each mutation calls a flow with the entity serialised then   *)

\* object_json_repr of the entity as serialised at time v
JsonAt(v) == Val("str", "{json}", v, 0)

\* the time at which the entity of an event was serialised
Version(e) == e.object_json_repr.local

\* the mutations of the entity are sequential: a mutation comes later than
\* the mutation of the newest event in the sink
FreshMutation == IF sink = <<>> THEN TRUE ELSE Version(sink[Len(sink)]) < now

\* the write of a mutation's event may fail
SeqFails == {"none", "write"}

SeqPreSave ==
    \E i \in Instances, d \in FlowDeltas, a \in RequestActors, f \in SeqFails :
        FreshMutation /\ pre_save_crud_flow(i, JsonAt(now), d, a, f)

SeqPostSave ==
    \E i \in Instances, a \in RequestActors, f \in SeqFails :
        FreshMutation /\ post_save_crud_flow(i, JsonAt(now), a, f)

SeqPostDelete ==
    \E i \in Instances, a \in RequestActors, f \in SeqFails :
        FreshMutation /\ post_delete_crud_flow(i, i.pk, JsonAt(now), a, f)

NextSeq ==
    \/ SeqPreSave
    \/ SeqPostSave
    \/ SeqPostDelete
    \/ Tick

SpecSeq == Init /\ [][NextSeq]_vars

\* C16: the audit events of an entity mutated by a sequence of operations
\* are in the sink in the order of the mutations that produced them; events
\* may be missing after a swallowed failure but are never reordered.
C16_SinkOrder ==
    /\ \A k, l \in 1..Len(sink) : k < l => Version(sink[k]) < Version(sink[l])
    /\ \A k \in 1..Len(sink) : Version(sink[k]) <= now

\* two events in mutation order, then a later mutation whose write failed
C16_Witness ==
    /\ Len(sink) = 2
    /\ Version(sink[1]) = 0
    /\ Version(sink[2]) = TickStep
    /\ sink[1].event_type = CREATE
    /\ sink[2].event_type = UPDATE
    /\ now = 2 * TickStep
    /\ last.failed

----------------------------------------------------------------------------
(* The abandoned operations: the pre-phase callback of an operation fires, *)
(* its post-phase callback never does (an aborted transaction), time goes  *)
(* on                                                                      *)

NextTtl ==
    \/ \E i \in Instances, x \in PreActions : CacheM2MField(i, x)
    \/ \E i \in Instances, pk \in MemberPks : Mutate(i, pk)
    \/ Tick
    \/ Evict

\* the clock does not stop
SpecTtl == Init /\ [][NextTtl]_vars /\ WF_vars(Tick)

\* the keys the instances of the model can write
SnapshotKeys ==
    {_cache_key(i, f, x) : i \in Instances, f \in {IdField, NameField}, x \in PreActions}

\* the last time the clock of the model reaches
Horizon == (MaxTime \div TickStep) * TickStep

Readable(k) == cache_get(cache, k, now) # None

----------------------------------------------------------------------------
(* The key runs: two (instance, field, action) triples, then their keys *)

ClubName == <<"C", "l", "u", "b">>

\* rows of three classes, two of them named Team in different apps
KeyInstances ==
    {Instance("teams", TeamName, 1), Instance("teams", TeamName, 12),
     Instance("sports", TeamName, 1), Instance("teams", ClubName, 1)}

KeyFields == {IdField, NameField}

KeyRequest(instance, field_name, action) ==
    [instance |-> instance, field_name |-> field_name, action |-> action]

KeyRequests ==
    {KeyRequest(i, f, x) :
        i \in KeyInstances, f \in KeyFields, x \in PreActions \cup PostActions}

InitKeys ==
    /\ settings = DefaultSettings(TRUE)
    /\ cls = NoClass
    /\ old_model = [n \in FieldNames |-> None]
    /\ new_model = old_model
    /\ delta = Unset
    /\ audit_fields = Unset
    /\ FlowsIdle
    /\ args \in {[flow |-> "_cache_key", x |-> x, y |-> y] : x, y \in KeyRequests}
    /\ keys = Unset

CacheKeys ==
    /\ keys = Unset
    /\ keys' = [t |-> "keys",
                x |-> _cache_key(args.x.instance, args.x.field_name, args.x.action),
                y |-> _cache_key(args.y.instance, args.y.field_name, args.y.action)]
    /\ UNCHANGED <<settings, args>>
    /\ UNCHANGED deltaVars
    /\ UNCHANGED flowVars

NextKeys == CacheKeys

SpecKeys == InitKeys /\ [][NextKeys]_vars

----------------------------------------------------------------------------
(* Properties of _cache_key (checked under SpecKeys) *)

\* the entity type of a row: its class, i.e. app and class name
TypeOf(instance) == <<instance.app, instance.name>>

\* C13: the snapshot key is injective on type, instance id and field: two
\* captures or reads that differ in the entity type, the instance id or the
\* tracked field never get the same key.
C13_KeyInjective ==
    (/\ keys # Unset
     /\ \/ TypeOf(args.x.instance) # TypeOf(args.y.instance)
        \/ args.x.instance.pk # args.y.instance.pk
        \/ args.x.field_name # args.y.field_name)
        => keys.x # keys.y

\* the operation X of the signal action pre_X or post_X
OperationOf(action) == CHOOSE X \in Operations : action \in {PRE \o X, POST \o X}

\* C14: for the same instance and field, the key of pre_X equals the key of
\* post_X for every operation X of add, remove, clear, and the keys of two
\* different operations differ.
C14_PhaseNormalized ==
    (/\ keys # Unset
     /\ args.x.instance = args.y.instance
     /\ args.x.field_name = args.y.field_name)
        => (keys.x = keys.y <=> OperationOf(args.x.action) = OperationOf(args.y.action))

C14_Witness ==
    /\ keys # Unset
    /\ args.x = KeyRequest(Instance("teams", TeamName, 12), IdField, PRE \o REMOVE)
    /\ args.y = KeyRequest(Instance("teams", TeamName, 12), IdField, POST \o REMOVE)
    /\ keys.x = keys.y
    /\ keys.x = <<"T", "e", "a", "m", "_", "1", "2", "_", "m", "+", "_", "_", "i", "d",
                  "_", "r", "e", "m", "o", "v", "e">>

----------------------------------------------------------------------------
(* Properties of one call of an entry point (checked under SpecCall) *)

\* the step is the call of m2m_changed_crud_flow with the given action
M2MCallOf(action) ==
    /\ NotCalled
    /\ args.flow = "m2m_changed"
    /\ args.action = action

DispatchFlows == {"pre_save", "post_save", "post_delete", "m2m_changed"}

\* the call of a dispatch flow has been made
Dispatched == args.flow \in DispatchFlows /\ (sink # <<>> \/ last.failed)

\* the call fails for a reason that is not the actor: an injected failure,
\* or a signal model with no relation to the instance
FailsOtherwise ==
    \/ args.fail # "none"
    \/ /\ args.flow = "m2m_changed"
       /\ args.action # POST \o CLEAR
       /\ args.model = UnrelatedModel

\* C12: resolving the actor never makes a dispatch fail. With no ambient
\* actor, an anonymous one, a failing ambient lookup, or re-validation on
\* and the actor's row gone, the event is assembled with both actor fields
\* empty; with an ambient actor and re-validation off or successful, both
\* fields carry the actor's identity.
C12_ActorResolution ==
    Dispatched =>
        /\ last.failed <=> FailsOtherwise
        /\ ~last.failed =>
              /\ Len(sink) = 1
              /\ LET e == sink[1]
                     a == args.actor
                     unresolved ==
                         \/ a.raises
                         \/ a.user = NoUser
                         \/ a.user = AnonymousUser
                         \/ settings.CHECK_IF_REQUEST_USER_EXISTS /\ ~a.exists
                 IN  IF unresolved
                     THEN e.user_id = Text(<<>>) /\ e.user_pk_as_string = Text(<<>>)
                     ELSE /\ e.user_id = PyInt(a.user.pk)
                          /\ e.user_pk_as_string = Text(IntToStr(a.user.pk))

\* re-validation is on and the ambient actor's row is gone: the event is
\* written with empty actor fields
C12_Witness ==
    /\ Dispatched
    /\ settings.CHECK_IF_REQUEST_USER_EXISTS
    /\ args.actor = Actor(User(7), FALSE, FALSE)
    /\ Len(sink) = 1
    /\ sink[1].user_id = Text(<<>>)
    /\ sink[1].user_pk_as_string = Text(<<>>)

\* the entries of the dict log_event hands to the sink
EventKeys ==
    {"content_type_id", "event_type", "object_id", "object_json_repr", "object_repr",
     "user_id", "user_pk_as_string", "changed_fields"}

Complete(e) == DOMAIN e = EventKeys

\* C15: the sink write of a dispatch is atomic: the sink holds only complete
\* audit events, a dispatch appends at most one event, and a dispatch that
\* fails inside the atomic block (while the event is built, or in the write
\* itself) appends none.
C15_AtomicWrite ==
    /\ \A k \in 1..Len(sink) : Complete(sink[k])
    /\ Len(sink) <= 1
    /\ (Dispatched /\ args.fail \in {"build", "write"}) => sink = <<>>
    /\ (Dispatched /\ ~last.failed) => Len(sink) = 1

\* a write that failed in the sink after the call of the backend
C15_Witness ==
    /\ Dispatched
    /\ args.flow = "post_save"
    /\ args.fail = "write"
    /\ last.failed
    /\ sink = <<>>

\* C17: a snapshot is consumed by its read at the post-phase: once a
\* post-phase dispatch has read the keys of an operation, a second read of
\* the same keys with no capture in between returns empty.
C17_SnapshotConsumed ==
    (/\ Dispatched
     /\ args.flow = "m2m_changed"
     /\ args.action # POST \o CLEAR
     /\ ~last.failed)
        => \A i \in Instances : \A f \in {IdField, NameField} :
              get_cached_m2m_field(cache, i, {f}, args.action, now)[f] = None

Ascending(q) == \A k, l \in 1..Len(q) : k < l => q[k] < q[l]

Capped(q) == Len(q) <= M2MCap

\* the lists of member values a call has produced: the values of the
\* snapshot entries in the cache and the new side of the event
MemberLists ==
    {cache[k].value.items : k \in DOMAIN cache}
    \cup UNION {{sink[n].changed_fields.new[f].items :
                    f \in DOMAIN sink[n].changed_fields.new} :
                n \in {m \in 1..Len(sink) : sink[m].changed_fields.t = "json"}}

\* C19: the list of member values captured in a snapshot, and the list
\* reported as the new side of a relationship delta, is ordered by the
\* members' primary key ascending and is never longer than the cap,
\* whatever the number of members of the relation.
C19_OrderedAndCapped == \A q \in MemberLists : Ascending(q) /\ Capped(q)

\* the ordering alone
MemberListsAscending == \A q \in MemberLists : Ascending(q)

\* the instance a successful call was made for
Target(e) == CHOOSE i \in Instances : <<i.name, i.pk>> = e.object_repr

\* C20: each flow records a fixed event kind and target identity:
\* pre_save_crud_flow records UPDATE and post_save_crud_flow CREATE, both
\* with the primary key of the instance; post_delete_crud_flow records
\* DELETE with the object id its caller supplied, not the instance's
\* primary key; m2m_changed_crud_flow records the event kind its caller
\* supplied.
C20_KindAndTarget ==
    (Dispatched /\ ~last.failed) =>
        LET e == sink[1] IN
        /\ args.flow = "pre_save" =>
              e.event_type = "UPDATE" /\ e.object_id = Target(e).pk
        /\ args.flow = "post_save" =>
              e.event_type = "CREATE" /\ e.object_id = Target(e).pk
        /\ args.flow = "post_delete" =>
              e.event_type = "DELETE" /\ e.object_id = args.object_id
        /\ args.flow = "m2m_changed" => e.event_type = args.event_type

\* a delete recorded under the id of its caller, 2, for the instance of pk 1
C20_Witness ==
    /\ Dispatched
    /\ args.flow = "post_delete"
    /\ args.object_id = 2
    /\ Len(sink) = 1
    /\ sink[1].event_type = "DELETE"
    /\ sink[1].object_id = 2
    /\ Target(sink[1]).pk = 1

====
